---- MODULE Spec2Model ----
(***************************************************************************)
(* Model of source/blender/io/avi/intern/avi_mjpeg.cc: the MJPEG <-> RGB   *)
(* frame converters of the AVI module.                                     *)
(*                                                                         *)
(* The JPEG library is the environment.  Its entropy coding is not         *)
(* modelled: a compressed stream is a record holding its byte length, the  *)
(* height its header reports and the pixel rows it carries (the codec is   *)
(* taken as row-preserving).  What the library does to the memory          *)
(* source/destination managers (consume bytes, call skip/fill/term) is     *)
(* modelled as nondeterministic steps.                                     *)
(*                                                                         *)
(* Assumptions: the destination handed to the encoder is large enough for  *)
(* the streams (the library never writes past free_in_buffer); a foreign   *)
(* stream has the frame's width; the quality setting and the other         *)
(* compression parameters do not influence the state modelled here.        *)
(***************************************************************************)
EXTENDS Integers, Sequences, FiniteSets, TLC

\* ---------------------------------------------------------------- bounds
MaxWidth == 1
MaxHeight == 4
\* largest capacity (in bytes) of a compressed buffer handed to an entry point
MaxBufSize == 6
\* most bytes the encoder emits for one library call
MaxEmit == 1
\* largest skip_count the library passes to skip_input_data
MaxSkip == 2
\* size_t is modelled SizeBits wide
SizeBits == 8

\* ------------------------------------------------------ program constants
MarkerLen == 60
Components == 3

SizeMod == 2 ^ SizeBits

Widths == 1..MaxWidth
Heights == 2..MaxHeight
BufSizes == 0..MaxBufSize
OddFlags == {0, 1}
Slots == {"dc0", "ac0", "dc1", "ac1"}
\* what a stream header may define: nothing, everything, or part of the set
TableSets == {{}, Slots, {"ac0"}, {"dc0"}}

\* size_t subtraction
SubSize(a, b) == (a - b) % SizeMod

\* ------------------------------------------------------------ pixel rows
RowStride(width) == width * Components

ZeroBuf(n) == [k \in 1..n |-> 0]

\* memcpy(&to[toOff], &from[fromOff], n); offsets are 0-based byte offsets.
\* Bytes that would land outside `to` are dropped by the model (the caller
\* records the overrun).
memcpy(to, toOff, from, fromOff, n) ==
  [k \in 1..Len(to) |->
     IF k - 1 >= toOff /\ k - 1 < toOff + n /\ fromOff + (k - toOff) \in 1..Len(from)
       THEN from[fromOff + (k - toOff)]
       ELSE to[k]]

RECURSIVE interlaceLoop(_, _, _, _, _)
interlaceLoop(i, to, from, rowstride, height) ==
  IF i >= height THEN to
  ELSE interlaceLoop(i + 1,
         IF i % 2 = 1
           THEN memcpy(to, i * rowstride, from, ((i \div 2) + (height \div 2)) * rowstride, rowstride)
           ELSE memcpy(to, i * rowstride, from, (i \div 2) * rowstride, rowstride),
         from, rowstride, height)

interlace(to, from, width, height) ==
  interlaceLoop(0, to, from, RowStride(width), height)

\* the row of `to` that deinterlace copies row i of `from` to
deinterlaceRow(odd, i, height) ==
  IF (i % 2) = odd THEN (i \div 2) + (height \div 2) ELSE i \div 2

RECURSIVE deinterlaceLoop(_, _, _, _, _, _)
deinterlaceLoop(i, odd, to, from, rowstride, height) ==
  IF i >= height THEN to
  ELSE deinterlaceLoop(i + 1, odd,
         memcpy(to, deinterlaceRow(odd, i, height) * rowstride, from, i * rowstride, rowstride),
         from, rowstride, height)

deinterlace(odd, to, from, width, height) ==
  deinterlaceLoop(0, odd, to, from, RowStride(width), height)

\* frames used as input: every byte distinct, and rows tagged by parity
TaggedFrame(w, h) == [k \in 1..(h * RowStride(w)) |-> k]
SentinelFrame(w, h) == [k \in 1..(h * RowStride(w)) |-> 100 + (((k - 1) \div RowStride(w)) % 2)]
Frames(w, h) == {TaggedFrame(w, h), SentinelFrame(w, h)}

\* row r (0-based) of a pixel buffer
RowOf(b, r, w) == SubSeq(b, r * RowStride(w) + 1, (r + 1) * RowStride(w))

\* ------------------------------------------------------- Huffman tables
\* A table slot of the decompress object is "none" (null pointer), "stream"
\* (defined by a DHT segment of the stream) or "std" (the standard table).
NoTables == [s \in Slots |-> "none"]

add_huff_table(t, slot) == [t EXCEPT ![slot] = "std"]

std_huff_tables(t) ==
  add_huff_table(add_huff_table(add_huff_table(add_huff_table(t, "dc0"), "ac0"), "dc1"), "ac1")

\* the bootstrap of Decode_JPEG, run after each jpeg_read_header
BootstrapTables(t) == IF t["dc0"] = "none" THEN std_huff_tables(t) ELSE t

\* --------------------------------------------------------------- markers
\* every stream opens with the start-of-image marker
SOI == <<255, 216>>
AviTag == <<65, 86, 73, 49, 0>>
\* mutant: the tag without its terminating 0
App0MarkerUnterminated ==
  [i \in 1..MarkerLen |-> IF i < Len(AviTag) THEN AviTag[i] ELSE 32]

App0Marker == [i \in 1..MarkerLen |-> IF i <= Len(AviTag) THEN AviTag[i] ELSE 32]
ComMarker == [i \in 1..MarkerLen |-> 0]

\* ------------------------------------------------------------------ heap
Ids == {"input", "a1", "a2"}
FreshHeap == [i \in Ids |-> IF i = "input" THEN "live" ELSE "none"]
NoMem == [i \in Ids |-> << >>]

MEM_freeN(h, id) == [h EXCEPT ![id] = IF h[id] = "live" THEN "freed" ELSE "double"]

\* imb_alloc_pixels: a zeroed buffer, or null
imb_alloc_pixels(h, id, ok) == [h EXCEPT ![id] = IF ok THEN "live" ELSE "failed"]

PixelBytes(m) == m.Height * m.Width * Components

\* ------------------------------------------------------ stream managers
NoMgr == [base |-> 0, next |-> 0, left |-> 0, cap |-> 0, live |-> FALSE]

\* jpegmemsrcmgr_build / jpegmemdestmgr_build: `left` is bytes_in_buffer
\* (source) or free_in_buffer (destination); `cap` remembers bufsize.
jpegmemsrcmgr_build(buffer, size_) ==
  [base |-> buffer, next |-> buffer, left |-> size_, cap |-> size_, live |-> TRUE]

jpegmemdestmgr_build(buffer, size_) ==
  [base |-> buffer, next |-> buffer, left |-> size_, cap |-> size_, live |-> TRUE]

\* numbytes after jpegmemsrcmgr_term_source / jpegmemdestmgr_term_destination
jpegmemsrcmgr_term_source(n, mgr) == SubSize(n, mgr.left)

\* mutant: the free bytes are not taken off the counter
term_destination_keeps_capacity(n, mgr) == n

jpegmemdestmgr_term_destination(n, mgr) == SubSize(n, mgr.left)

\* the destination never grows: "buffer full" is answered with TRUE
jpegmemdestmgr_empty_output_buffer(mgr) == mgr

\* skip_count after the clamp of jpegmemsrcmgr_skip_input_data
SkipCount(mgr, skip_count) == IF mgr.left < skip_count THEN mgr.left ELSE skip_count

jpegmemsrcmgr_skip_input_data(mgr, skip_count) ==
  [mgr EXCEPT !.next = @ + SkipCount(mgr, skip_count),
              !.left = @ - SkipCount(mgr, skip_count)]

jpegmemsrcmgr_fill_input_buffer(mgr) ==
  [mgr EXCEPT !.next = @ - 2, !.left = 2]

\* the library writing k bytes through the destination manager
Emit(mgr, k) ==
  LET m == [mgr EXCEPT !.next = @ + k, !.left = @ - k]
  IN IF k > 0 /\ m.left = 0 THEN jpegmemdestmgr_empty_output_buffer(m) ELSE m

\* mutant: a stream as high as the frame is taken for a field
IsTallerThanFrame(output_height, height) == output_height > height

\* the return value of the height test of Decode_JPEG
IsFullFrame(output_height, height) == output_height >= height

\* ================================================================= state
VARIABLES
  movie,     \* header: Width, Height, interlace, odd_fields
  op,        \* the entry point running: "to_mjpeg", "from_mjpeg" or "fields"
  pc,        \* position inside it
  buffer,    \* local `buffer` of the entry point: a heap id
  buf,       \* local `buf` of the entry point: a heap id or "null"
  size,      \* *size
  bufsize,   \* bufsize of avi_converter_to_mjpeg / of Decode_JPEG
  heap,      \* id -> "none", "live", "freed", "double" (freed twice) or "failed"
  mem,       \* id -> pixel bytes
  orig,      \* the frame handed to the encoder
  jpg,       \* streams the encoder wrote; << >> when the data is foreign
  numbytes,  \* the file-static byte counter
  src,       \* memory source manager
  dest,      \* memory destination manager
  tbl,       \* Huffman table slots of the decompress object
  dj,        \* locals of Decode_JPEG
  cj,        \* parameters and locals of Compress_JPEG
  calls,     \* library calls made by the entry point, in order
  written,   \* rows stored by Decode_JPEG: pass and byte offset in outBuffer
  patched,   \* byte offsets (from inBuffer) overwritten by fill_input_buffer
  deint,     \* result of Decode_JPEG
  result     \* value returned by the entry point; "none" while running

vars == <<movie, op, pc, buffer, buf, size, bufsize, heap, mem, orig, jpg, numbytes,
          src, dest, tbl, dj, cj, calls, written, patched, deint, result>>

NoDj == [inBuffer |-> 0, outBuffer |-> 0, output_height |-> 0, y |-> 0, pass |-> 0]
NoCj == [outbuffer |-> 0, inBuffer |-> 0, height |-> 0, bufsize |-> 0, y |-> 0,
         run |-> 0, rows |-> << >>]

Foreign == jpg = << >>

\* the stream the encoder wrote at byte offset `at`
StreamsAt(at) == {i \in 1..Len(jpg) : jpg[i].off = at}
StreamAt(at) == jpg[CHOOSE i \in StreamsAt(at) : TRUE]

Call(name, data) == [call |-> name, data |-> data]

InitCommon ==
  /\ buffer = "input" /\ buf = "null"
  /\ heap = FreshHeap
  /\ jpg = << >> /\ numbytes = 0
  /\ src = NoMgr /\ dest = NoMgr /\ tbl = NoTables
  /\ dj = NoDj /\ cj = NoCj
  /\ calls = << >> /\ written = << >> /\ patched = {}
  /\ deint = 0 /\ result = "none"

\* interlace / deinterlace applied to a frame
InitFields ==
  /\ op = "fields" /\ pc = "f_split"
  /\ \E w \in Widths, h \in Heights, o \in OddFlags :
       /\ movie = [Width |-> w, Height |-> h, interlace |-> TRUE, odd_fields |-> o]
       /\ \E x \in Frames(w, h) : orig = x /\ mem = [NoMem EXCEPT !["input"] = x]
  /\ size = 0 /\ bufsize = 0

\* avi_converter_to_mjpeg(movie, stream, buffer, &size); the destination is
\* sized for the streams (each run has room for at least the SOI marker)
InitEncode ==
  /\ op = "to_mjpeg" /\ pc = "to_alloc"
  /\ \E w \in Widths, h \in Heights, o \in OddFlags, i \in BOOLEAN :
       /\ movie = [Width |-> w, Height |-> h, interlace |-> i, odd_fields |-> o]
       /\ \E x \in Frames(w, h) : orig = x /\ mem = [NoMem EXCEPT !["input"] = x]
  /\ size \in (2 * Len(SOI))..MaxBufSize /\ bufsize = 0

\* avi_converter_from_mjpeg(movie, stream, buffer, &size) on foreign data
InitDecode ==
  /\ op = "from_mjpeg" /\ pc = "from_alloc"
  /\ \E w \in Widths, h \in Heights :
       movie = [Width |-> w, Height |-> h, interlace |-> FALSE, odd_fields |-> 0]
  /\ orig = << >> /\ mem = NoMem
  /\ size \in BufSizes /\ bufsize = size

Init == InitCommon /\ (InitFields \/ InitEncode \/ InitDecode)

\* ------------------------------------------------------- field transform
FieldsDeinterlace ==
  /\ op = "fields" /\ pc = "f_split"
  /\ mem' = [mem EXCEPT !["a1"] = deinterlace(movie.odd_fields, ZeroBuf(PixelBytes(movie)),
                                               mem["input"], movie.Width, movie.Height)]
  /\ pc' = "f_merge"
  /\ UNCHANGED <<movie, op, buffer, buf, size, bufsize, heap, orig, jpg, numbytes, src, dest,
                 tbl, dj, cj, calls, written, patched, deint, result>>

FieldsInterlace ==
  /\ op = "fields" /\ pc = "f_merge"
  /\ mem' = [mem EXCEPT !["a2"] = interlace(ZeroBuf(PixelBytes(movie)), mem["a1"],
                                             movie.Width, movie.Height)]
  /\ pc' = "done"
  /\ UNCHANGED <<movie, op, buffer, buf, size, bufsize, heap, orig, jpg, numbytes, src, dest,
                 tbl, dj, cj, calls, written, patched, deint, result>>

\* ------------------------------------------------ avi_converter_to_mjpeg
\* lines 400-416
ToAlloc ==
  /\ op = "to_mjpeg" /\ pc = "to_alloc"
  /\ bufsize' = size /\ numbytes' = 0 /\ size' = 0
  /\ \E ok \in BOOLEAN :
       /\ heap' = imb_alloc_pixels(heap, "a1", ok)
       /\ IF ok
            THEN /\ buf' = "a1" /\ pc' = "to_branch" /\ result' = result
                 /\ mem' = [mem EXCEPT !["a1"] = ZeroBuf(PixelBytes(movie))]
            ELSE /\ buf' = "null" /\ pc' = "done" /\ result' = "null" /\ mem' = mem
  /\ UNCHANGED <<movie, op, buffer, orig, jpg, src, dest, tbl, dj, cj, calls, written,
                 patched, deint>>

\* lines 418-424: the call of Compress_JPEG for a progressive frame
ToProgressive ==
  /\ op = "to_mjpeg" /\ pc = "to_branch" /\ ~movie.interlace
  /\ cj' = [outbuffer |-> 0, inBuffer |-> 0, height |-> movie.Height, bufsize |-> bufsize,
            y |-> 0, run |-> 1, rows |-> << >>]
  /\ pc' = "cj_build"
  /\ UNCHANGED <<movie, op, buffer, buf, size, bufsize, heap, mem, orig, jpg, numbytes, src,
                 dest, tbl, dj, calls, written, patched, deint, result>>

\* lines 428-445: deinterlace, release the input, allocate the destination,
\* call Compress_JPEG for the first field
ToInterlaced ==
  /\ op = "to_mjpeg" /\ pc = "to_branch" /\ movie.interlace
  /\ buffer' = "a1"
  /\ \E ok \in BOOLEAN :
       /\ heap' = imb_alloc_pixels(MEM_freeN(heap, buffer), "a2", ok)
       /\ mem' = [mem EXCEPT !["a1"] = deinterlace(movie.odd_fields, mem["a1"], mem[buffer],
                                                    movie.Width, movie.Height)]
       /\ IF ok
            THEN /\ buf' = "a2" /\ pc' = "cj_build"
                 /\ cj' = [outbuffer |-> 0, inBuffer |-> 0, height |-> movie.Height \div 2,
                           bufsize |-> bufsize \div 2, y |-> 0, run |-> 1, rows |-> << >>]
            ELSE /\ buf' = "null" /\ pc' = "to_free" /\ cj' = cj
  /\ UNCHANGED <<movie, op, size, bufsize, orig, jpg, numbytes, src, dest, tbl, dj, calls,
                 written, patched, deint, result>>

\* ---------------------------------------------------------- Compress_JPEG
\* lines 277-301: create the compress object, build the destination manager,
\* set the parameters
CJ_Build ==
  /\ pc = "cj_build"
  /\ dest' = jpegmemdestmgr_build(cj.outbuffer, cj.bufsize)
  /\ numbytes' = cj.bufsize % SizeMod
  /\ calls' = Append(calls, Call("jpegmemdestmgr_build", << >>))
  /\ pc' = "cj_start"
  /\ UNCHANGED <<movie, op, buffer, buf, size, bufsize, heap, mem, orig, jpg, src, tbl, dj, cj,
                 written, patched, deint, result>>

\* line 303
CJ_Start ==
  /\ pc = "cj_start"
  /\ \E k \in 0..MaxEmit : Len(SOI) + k <= dest.left /\ dest' = Emit(dest, Len(SOI) + k)
  /\ calls' = Append(calls, Call("jpeg_start_compress", << >>))
  /\ pc' = "cj_app0"
  /\ UNCHANGED <<movie, op, buffer, buf, size, bufsize, heap, mem, orig, jpg, numbytes, src,
                 tbl, dj, cj, written, patched, deint, result>>

\* lines 305-315
CJ_App0 ==
  /\ pc = "cj_app0"
  /\ \E k \in 0..MaxEmit : k <= dest.left /\ dest' = Emit(dest, k)
  /\ calls' = Append(calls, Call("jpeg_write_marker APP0", App0Marker))
  /\ pc' = "cj_com"
  /\ UNCHANGED <<movie, op, buffer, buf, size, bufsize, heap, mem, orig, jpg, numbytes, src,
                 tbl, dj, cj, written, patched, deint, result>>

\* lines 317-324
CJ_Com ==
  /\ pc = "cj_com"
  /\ \E k \in 0..MaxEmit : k <= dest.left /\ dest' = Emit(dest, k)
  /\ calls' = Append(calls, Call("jpeg_write_marker COM", ComMarker))
  /\ pc' = "cj_rows"
  /\ UNCHANGED <<movie, op, buffer, buf, size, bufsize, heap, mem, orig, jpg, numbytes, src,
                 tbl, dj, cj, written, patched, deint, result>>

\* lines 325-328: one pass of the scanline loop
CJ_WriteScanline ==
  /\ pc = "cj_rows" /\ cj.y < cj.height
  /\ \E k \in 0..MaxEmit : k <= dest.left /\ dest' = Emit(dest, k)
  /\ calls' = Append(calls, Call("jpeg_write_scanlines", << >>))
  /\ cj' = [cj EXCEPT !.y = @ + 1,
                      !.inBuffer = @ + RowStride(movie.Width),
                      !.rows = @ \o SubSeq(mem[buffer], cj.inBuffer + 1,
                                           cj.inBuffer + RowStride(movie.Width))]
  /\ UNCHANGED <<movie, op, pc, buffer, buf, size, bufsize, heap, mem, orig, jpg, numbytes,
                 src, tbl, dj, written, patched, deint, result>>

\* lines 329-330: jpeg_finish_compress, which calls term_destination
CJ_Finish ==
  /\ pc = "cj_rows" /\ cj.y >= cj.height
  /\ \E k \in 0..MaxEmit :
       /\ k <= dest.left
       /\ dest' = [Emit(dest, k) EXCEPT !.live = FALSE]
       /\ numbytes' = jpegmemdestmgr_term_destination(numbytes, Emit(dest, k))
       /\ jpg' = Append(jpg, [off |-> dest.base, len |-> (dest.next + k) - dest.base,
                              height |-> cj.height, rows |-> cj.rows, tables |-> {}])
  /\ calls' = Append(calls, Call("jpeg_finish_compress", << >>))
  /\ pc' = "to_after"
  /\ UNCHANGED <<movie, op, buffer, buf, size, bufsize, heap, mem, orig, src, tbl, dj, cj,
                 written, patched, deint, result>>

\* lines 425 and 446-453: take the byte count; for the first field of an
\* interlaced frame, call Compress_JPEG for the second field
ToAfter ==
  /\ op = "to_mjpeg" /\ pc = "to_after"
  /\ size' = (size + numbytes) % SizeMod
  /\ IF movie.interlace /\ cj.run = 1
       THEN /\ numbytes' = 0
            /\ cj' = [outbuffer |-> size',
                      inBuffer |-> (movie.Height \div 2) * movie.Width * 3,
                      height |-> movie.Height \div 2, bufsize |-> bufsize \div 2,
                      y |-> 0, run |-> 2, rows |-> << >>]
            /\ pc' = "cj_build"
       ELSE /\ numbytes' = numbytes /\ cj' = cj /\ pc' = "to_free"
  /\ UNCHANGED <<movie, op, buffer, buf, bufsize, heap, mem, orig, jpg, src, dest, tbl, dj,
                 calls, written, patched, deint, result>>

\* lines 458-459
ToFree ==
  /\ op = "to_mjpeg" /\ pc = "to_free"
  /\ heap' = MEM_freeN(heap, buffer)
  /\ result' = buf
  /\ pc' = "done"
  /\ UNCHANGED <<movie, op, buffer, buf, size, bufsize, mem, orig, jpg, numbytes, src, dest,
                 tbl, dj, cj, calls, written, patched, deint>>

\* ---------------------------------------------- avi_converter_from_mjpeg
\* the decoder is handed the buffer the encoder returned
Reopen ==
  /\ op = "to_mjpeg" /\ pc = "done" /\ result # "null"
  /\ op' = "from_mjpeg" /\ pc' = "from_alloc"
  /\ buffer' = "input" /\ buf' = "null"
  /\ heap' = FreshHeap /\ mem' = NoMem
  /\ bufsize' = size
  /\ numbytes' = numbytes
  /\ src' = NoMgr /\ dest' = NoMgr /\ cj' = NoCj
  /\ calls' = << >> /\ result' = "none"
  /\ UNCHANGED <<movie, size, orig, jpg, tbl, dj, written, patched, deint>>

\* lines 361-376
FromAlloc ==
  /\ op = "from_mjpeg" /\ pc = "from_alloc"
  /\ \E ok \in BOOLEAN :
       /\ heap' = imb_alloc_pixels(heap, "a1", ok)
       /\ IF ok
            THEN /\ buf' = "a1" /\ pc' = "dj_begin" /\ result' = result
                 /\ mem' = [mem EXCEPT !["a1"] = ZeroBuf(PixelBytes(movie))]
            ELSE /\ buf' = "null" /\ pc' = "done" /\ result' = "null" /\ mem' = mem
  /\ UNCHANGED <<movie, op, buffer, size, bufsize, orig, jpg, numbytes, src, dest, tbl, dj, cj,
                 calls, written, patched, deint>>

\* ------------------------------------------------------------ Decode_JPEG
\* lines 217-228
DJ_Begin ==
  /\ pc = "dj_begin"
  /\ src' = jpegmemsrcmgr_build(0, bufsize)
  /\ numbytes' = bufsize % SizeMod
  /\ tbl' = NoTables
  /\ dj' = [inBuffer |-> 0, outBuffer |-> 0, output_height |-> 0, y |-> 0, pass |-> 1]
  /\ pc' = "hdr"
  /\ UNCHANGED <<movie, op, buffer, buf, size, bufsize, heap, mem, orig, jpg, dest, cj, calls,
                 written, patched, deint, result>>

InLibrary == pc \in {"hdr", "hdr_eof", "rows"} /\ src.live

\* the end of the data the library reads in this pass
ReadLimit == IF Foreign THEN src.base + src.cap
             ELSE IF StreamsAt(src.base) = {} THEN src.base
             ELSE StreamAt(src.base).off + StreamAt(src.base).len

\* the library takes k bytes from next_input_byte
CodecConsume ==
  /\ InLibrary
  /\ \E k \in 1..src.left :
       /\ src.next + k <= ReadLimit
       /\ src' = [src EXCEPT !.next = @ + k, !.left = @ - k]
  /\ UNCHANGED <<movie, op, pc, buffer, buf, size, bufsize, heap, mem, orig, jpg, numbytes,
                 dest, tbl, dj, cj, calls, written, patched, deint, result>>

\* lines 520-528, called by the library to pass over a segment
SkipInputData(skip_count) ==
  /\ InLibrary
  /\ src.next + SkipCount(src, skip_count) <= ReadLimit
  /\ src' = jpegmemsrcmgr_skip_input_data(src, skip_count)
  /\ UNCHANGED <<movie, op, pc, buffer, buf, size, bufsize, heap, mem, orig, jpg, numbytes,
                 dest, tbl, dj, cj, calls, written, patched, deint, result>>

\* lines 504-518, called by the library when bytes_in_buffer is 0 and it needs
\* more.  A write in front of the allocation is undefined: the run goes on or
\* the process dies.  Once the data has run out inside the header the library
\* cannot find a frame any more ("hdr_eof").
FillInputBuffer ==
  /\ InLibrary /\ src.left = 0
  /\ src.next >= ReadLimit
  /\ src' = jpegmemsrcmgr_fill_input_buffer(src)
  /\ patched' = patched \cup {src.next - 2, src.next - 1}
  /\ \/ pc' = IF pc = "hdr" THEN "hdr_eof" ELSE pc
     \/ src.next - 2 < 0 /\ pc' = "crashed"
  /\ UNCHANGED <<movie, op, buffer, buf, size, bufsize, heap, mem, orig, jpg, numbytes,
                 dest, tbl, dj, cj, calls, written, deint, result>>

\* error_exit of jpeg_std_error: the library rejects the data and exits
CodecErrorExit ==
  /\ pc \in {"hdr", "hdr_eof"} /\ Foreign
  /\ pc' = "exit"
  /\ UNCHANGED <<movie, op, buffer, buf, size, bufsize, heap, mem, orig, jpg, numbytes, src,
                 dest, tbl, dj, cj, calls, written, patched, deint, result>>

\* lines 229 and 253: jpeg_read_header returns, having read at least the SOI
\* marker; the header gives the image height and the tables the stream defines
DJ_ReadHeader ==
  /\ pc = "hdr"
  /\ src.next - src.base >= Len(SOI)
  /\ \E h \in 1..MaxHeight, defined \in TableSets :
       /\ Foreign \/ (StreamsAt(src.base) # {} /\ h = StreamAt(src.base).height
                                               /\ defined = StreamAt(src.base).tables)
       /\ tbl' = [s \in Slots |-> IF s \in defined THEN "stream" ELSE tbl[s]]
       /\ dj' = [dj EXCEPT !.output_height = h]
  /\ pc' = "tables"
  /\ UNCHANGED <<movie, op, buffer, buf, size, bufsize, heap, mem, orig, jpg, numbytes, src,
                 dest, cj, calls, written, patched, deint, result>>

\* lines 230-238 and 254-259: install the standard tables, start decompression
DJ_Tables ==
  /\ pc = "tables"
  /\ tbl' = BootstrapTables(tbl)
  /\ dj' = [dj EXCEPT !.y = 0]
  /\ pc' = "rows"
  /\ UNCHANGED <<movie, op, buffer, buf, size, bufsize, heap, mem, orig, jpg, numbytes, src,
                 dest, cj, calls, written, patched, deint, result>>

\* the row the library decodes next
DecodedRow ==
  IF Foreign \/ StreamsAt(src.base) = {}
    THEN [k \in 1..RowStride(movie.Width) |-> 200 + dj.pass]
    ELSE RowOf(StreamAt(src.base).rows, dj.y, movie.Width)

\* lines 239-242 and 260-263: one pass of the scanline loop.  A row stored
\* past the end of outBuffer is undefined: the run goes on or the process dies.
DJ_ReadScanline ==
  /\ pc = "rows" /\ dj.y < dj.output_height
  /\ mem' = [mem EXCEPT ![buf] = memcpy(@, dj.outBuffer, DecodedRow, 0, RowStride(movie.Width))]
  /\ written' = Append(written, [pass |-> dj.pass, at |-> dj.outBuffer])
  /\ dj' = [dj EXCEPT !.y = @ + 1, !.outBuffer = @ + RowStride(movie.Width)]
  /\ \/ pc' = pc
     \/ dj.outBuffer + RowStride(movie.Width) > PixelBytes(movie) /\ pc' = "crashed"
  /\ UNCHANGED <<movie, op, buffer, buf, size, bufsize, heap, orig, jpg, numbytes, src, dest,
                 tbl, cj, calls, patched, deint, result>>

\* lines 243 and 264: jpeg_finish_decompress, which calls term_source
DJ_Finish ==
  /\ pc = "rows" /\ dj.y >= dj.output_height
  /\ Foreign \/ src.next = ReadLimit
  /\ numbytes' = jpegmemsrcmgr_term_source(numbytes, src)
  /\ src' = [src EXCEPT !.live = FALSE]
  /\ pc' = "fin"
  /\ UNCHANGED <<movie, op, buffer, buf, size, bufsize, heap, mem, orig, jpg, dest, tbl, dj,
                 cj, calls, written, patched, deint, result>>

\* lines 245-252: return 0 for a full frame, else set up the second pass
DJ_Check ==
  /\ pc = "fin" /\ dj.pass = 1
  /\ IF IsFullFrame(dj.output_height, movie.Height)
       THEN /\ deint' = 0 /\ pc' = "from_free"
            /\ UNCHANGED <<src, numbytes, dj>>
       ELSE /\ dj' = [dj EXCEPT !.inBuffer = @ + numbytes, !.pass = 2]
            /\ src' = jpegmemsrcmgr_build(dj.inBuffer + numbytes, SubSize(bufsize, numbytes))
            /\ numbytes' = 0
            /\ pc' = "hdr"
            /\ deint' = deint
  /\ UNCHANGED <<movie, op, buffer, buf, size, bufsize, heap, mem, orig, jpg, dest, tbl, cj,
                 calls, written, patched, result>>

\* lines 265-267
DJ_Return ==
  /\ pc = "fin" /\ dj.pass = 2
  /\ deint' = 1
  /\ pc' = "from_free"
  /\ UNCHANGED <<movie, op, buffer, buf, size, bufsize, heap, mem, orig, jpg, numbytes, src,
                 dest, tbl, dj, cj, calls, written, patched, result>>

\* lines 380-397
FromFinish ==
  /\ op = "from_mjpeg" /\ pc = "from_free"
  /\ IF deint # 0
       THEN \E ok \in BOOLEAN :
              /\ heap' = MEM_freeN(imb_alloc_pixels(MEM_freeN(heap, buffer), "a2", ok), buf)
              /\ buffer' = IF ok THEN "a2" ELSE "null"
              /\ buf' = buffer'
              /\ mem' = IF ok THEN [mem EXCEPT !["a2"] = interlace(ZeroBuf(PixelBytes(movie)),
                                                     mem[buf], movie.Width, movie.Height)]
                              ELSE mem
              /\ calls' = IF ok THEN Append(calls, Call("interlace", << >>)) ELSE calls
       ELSE /\ heap' = MEM_freeN(heap, buffer)
            /\ UNCHANGED <<buffer, buf, mem, calls>>
  /\ result' = buf'
  /\ pc' = "done"
  /\ UNCHANGED <<movie, op, size, bufsize, orig, jpg, numbytes, src, dest, tbl, dj, cj,
                 written, patched, deint>>

Next ==
  \/ FieldsDeinterlace \/ FieldsInterlace
  \/ ToAlloc \/ ToProgressive \/ ToInterlaced
  \/ CJ_Build \/ CJ_Start \/ CJ_App0 \/ CJ_Com \/ CJ_WriteScanline \/ CJ_Finish
  \/ ToAfter \/ ToFree
  \/ Reopen \/ FromAlloc
  \/ DJ_Begin \/ CodecConsume \/ (\E n \in 1..MaxSkip : SkipInputData(n))
  \/ FillInputBuffer \/ CodecErrorExit
  \/ DJ_ReadHeader \/ DJ_Tables \/ DJ_ReadScanline \/ DJ_Finish \/ DJ_Check \/ DJ_Return
  \/ FromFinish

Spec == Init /\ [][Next]_vars

\* ================================================================ claims
Min(a, b) == IF a < b THEN a ELSE b
EvenHeight == movie.Height % 2 = 0
Returned(entry) == op = entry /\ pc = "done"
IsPrefix(a, b) == Len(a) <= Len(b) /\ SubSeq(b, 1, Len(a)) = a

\* C1: for even height and either field order, interlace applied to the
\* result of deinterlace gives back the frame, row for row.
ClaimC1 ==
  (op = "fields" /\ pc = "done" /\ EvenHeight) => mem["a2"] = mem["input"]

\* C2: at the teardown of a source or destination manager the byte counter
\* is the manager's capacity minus its remaining length, without wrap-around.
ClaimC2 ==
  /\ pc = "fin" => numbytes = src.cap - src.left
  /\ pc = "to_after" => numbytes = dest.cap - dest.left

\* C3: an interlaced frame of even height, encoded and then decoded, comes
\* back with every row in its original position, whatever the field order.
ClaimC3 ==
  (Returned("from_mjpeg") /\ ~Foreign /\ movie.interlace /\ EvenHeight /\ result # "null")
    => mem[result] = orig

\* rows stored by the first pass of Decode_JPEG
FirstHeight == Cardinality({i \in 1..Len(written) : written[i].pass = 1})
InterlaceApplied == \E i \in 1..Len(calls) : calls[i].call = "interlace"

\* the parts of C4 that do not concern when interlace runs
TwoFieldDecode ==
  /\ (pc = "fin" /\ dj.pass = 1 /\ pc' = "from_free") => ~(dj.output_height < movie.Height)
  /\ (pc = "fin" /\ dj.pass = 1 /\ pc' = "hdr") =>
        /\ dj.output_height < movie.Height
        /\ src'.base = src.base + (src.cap - src.left)
        /\ src'.next = src'.base
        /\ src'.cap = bufsize - (src.cap - src.left)
        /\ src'.left = src'.cap
  /\ pc' = "from_free" =>
        /\ deint' \in {0, 1}
        /\ deint' = 1 <=> FirstHeight' < movie.Height
        /\ deint' = 0 => dj'.pass = 1
        /\ deint' = 1 => dj'.pass = 2
  /\ \A k \in 1..Len(written') : written'[k].at = (k - 1) * RowStride(movie.Width)

\* C4 as stated: Decode_JPEG returns 1 exactly when the first stream is
\* shorter than the frame; the second source manager then covers exactly the
\* bytes after those the first stream consumed, the second field's rows
\* follow the first field's rows, and interlace runs exactly when the result
\* is 1.
ClaimC4Stated ==
  [][/\ TwoFieldDecode
     /\ (pc = "from_free" /\ pc' = "done") => (InterlaceApplied' <=> deint = 1)]_vars

\* C4 amended: as stated, except that interlace runs exactly when the result
\* is 1 and the second pixel buffer was allocated.
ClaimC4 ==
  [][/\ TwoFieldDecode
     /\ (pc = "from_free" /\ pc' = "done") =>
          (InterlaceApplied' <=> (deint = 1 /\ heap'["a2"] # "failed"))]_vars

WitnessC4 ==
  /\ Returned("from_mjpeg") /\ deint = 1 /\ InterlaceApplied /\ result = "a2"
  /\ src.base > 0 /\ src.cap > 0 /\ Len(written) = movie.Height

\* C5: on return from avi_converter_to_mjpeg, *size is the number of bytes
\* written: one stream at offset 0 for a progressive frame; for an interlaced
\* frame two streams of Height/2 rows, the second starting where the first
\* ends, and *size their sum.
ClaimC5 ==
  (Returned("to_mjpeg") /\ result # "null") =>
    IF movie.interlace
      THEN /\ Len(jpg) = 2
           /\ jpg[1].off = 0 /\ jpg[2].off = jpg[1].len
           /\ jpg[1].height = movie.Height \div 2 /\ jpg[2].height = movie.Height \div 2
           /\ size = jpg[1].len + jpg[2].len
      ELSE /\ Len(jpg) = 1
           /\ jpg[1].off = 0 /\ jpg[1].height = movie.Height
           /\ size = jpg[1].len

WitnessC5 ==
  /\ Returned("to_mjpeg") /\ result # "null" /\ movie.interlace
  /\ Len(jpg) = 2 /\ jpg[1].len = 3 /\ jpg[2].len = 2 /\ jpg[2].off = 3 /\ size = 5

\* C6: when an entry point returns, the caller's buffer has been released
\* once, every buffer the call allocated except the returned one has been
\* released, none twice, and the result is null exactly when an allocation
\* failed.
ClaimC6 ==
  (Returned("to_mjpeg") \/ Returned("from_mjpeg")) =>
    /\ heap["input"] = "freed"
    /\ \A id \in Ids : heap[id] # "double"
    /\ \A id \in {"a1", "a2"} : heap[id] = "live" <=> result = id
    /\ result = "null" <=> (\E id \in Ids : heap[id] = "failed")

\* C7: the standard tables go in only when the decompress object holds no
\* table after the header is read; a slot that holds a table is left alone.
ClaimC7 ==
  [][pc = "tables" =>
       /\ \A s \in Slots : tbl[s] # "none" => tbl'[s] = tbl[s]
       /\ tbl' # tbl => \A s \in Slots : tbl[s] = "none"]_vars

\* the library calls of one run of Compress_JPEG over `height` rows
RunCalls(height) ==
  <<Call("jpegmemdestmgr_build", << >>),
    Call("jpeg_start_compress", << >>),
    Call("jpeg_write_marker APP0", <<65, 86, 73, 49, 0>> \o [i \in 1..55 |-> 32]),
    Call("jpeg_write_marker COM", [i \in 1..60 |-> 0])>>
  \o [i \in 1..height |-> Call("jpeg_write_scanlines", << >>)]
  \o <<Call("jpeg_finish_compress", << >>)>>

FrameCalls ==
  IF movie.interlace
    THEN RunCalls(movie.Height \div 2) \o RunCalls(movie.Height \div 2)
    ELSE RunCalls(movie.Height)

\* C8: every run of the encoder makes its library calls in this order: build
\* the destination, start, the 60-byte APP0 marker 'A','V','I','1',0 and 55
\* spaces, the 60-byte COM marker of zeros, `height` rows, finish.
ClaimC8 ==
  op = "to_mjpeg" =>
    /\ IsPrefix(calls, FrameCalls)
    /\ (pc = "done" /\ result # "null") => calls = FrameCalls

WitnessC8 ==
  /\ Returned("to_mjpeg") /\ result # "null" /\ movie.interlace /\ movie.Height = 4
  /\ Len(calls) = 14

\* C9: Decode_JPEG never stores more rows than the frame has, so no row goes
\* past the end of the pixel buffer.
ClaimC9 ==
  /\ Len(written) <= movie.Height
  /\ \A k \in 1..Len(written) : written[k].at + RowStride(movie.Width) <= PixelBytes(movie)

\* C10: the cursor of a source manager stays inside the buffer it wraps,
\* cursor plus remaining is the capacity, skip advances by
\* min(requested, remaining), and fill overwrites two bytes inside the buffer.
ClaimC10 ==
  [][/\ src'.live => /\ 0 <= src'.next - src'.base
                     /\ src'.next - src'.base <= src'.cap
                     /\ (src'.next - src'.base) + src'.left = src'.cap
     /\ \A n \in 1..MaxSkip :
          SkipInputData(n) => src'.next - src.next = Min(n, src.left)
     /\ FillInputBuffer =>
          {src.next - 2, src.next - 1} \subseteq src.base..(src.base + src.cap - 1)]_vars

====
